---- MODULE Spec2Model ----
(***************************************************************************)
(* State-machine model of broker.hosts.Host (src/broker/hosts.py): the     *)
(* settings validation gate, construction and identity check, the lazy     *)
(* session accessor, connect, execute, close, the finalizer and the        *)
(* to_dict / from_dict serialization.                                      *)
(*                                                                         *)
(* Python values are modelled as strings.  A Host's __dict__ is a function *)
(* from attribute names to values, where ABSENT marks a name that is not   *)
(* in the dictionary.  The _session attribute is kept in its own variable: *)
(* 0 is None, n > 0 is the n-th session object created in the process.     *)
(***************************************************************************)
EXTENDS Integers, Sequences, FiniteSets, TLC

VARIABLES
    SETTINGS_VALIDATED, \* module global of hosts.py
    status,             \* per host slot: "unbuilt", "failed" (__init__ raised) or "live"
    dict,               \* per host slot: the instance __dict__ without _session
    _session,           \* per host slot: the _session attribute (0 = None)
    sessions,           \* every session object created so far, by id
    record,             \* the last serialized record produced by to_dict
    thread,             \* per host slot: where the thread building it is in __init__
    ev                  \* the last call made on a Host and how it ended

vars == <<SETTINGS_VALIDATED, status, dict, _session, sessions, record, thread, ev>>

----------------------------------------------------------------------------
(* Bounds *)

MaxSessions == 2      \* session objects created in one run
MaxDisconnects == 2   \* disconnect calls on one session object

----------------------------------------------------------------------------
(* Values *)

ABSENT == "<absent>"  \* the name is not in the dictionary
NONE == "None"

Hosts == {"h1", "h2"}      \* host slots (object references a caller can hold)
MainHosts == {"h1"}        \* the slots the sequential specification drives

\* Attribute and keyword names that occur in the model.
Keys ==
    {"hostname", "ip", "name", "username", "password", "connection_timeout",
     "timeout", "port", "key_filename", "ipv6", "ipv4_fallback",
     "_cont_inst", "is_container", "_settings", "DEFAULT_USER", "user",
     "runtime", "_prov_inst", "default_timeout", "job_id", "foo",
     "from_dict", "_broker_provider_instance", "type", "_session"}

NoKw == [k \in Keys |-> ABSENT]

\* Python truthiness of the values used here.
Truthy(v) == v \notin {ABSENT, NONE, "", "False", "0"}

\* a or b
Or(a, b) == IF Truthy(a) THEN a ELSE b

\* dict.get(k) / dict.get(k, default) / dict.pop(k, default)
Get(d, k, default) == IF d[k] = ABSENT THEN default ELSE d[k]

\* hasattr(self, k) / getattr(self, k, default) on an instance __dict__;
\* default_timeout is also a class attribute, so it is always found.
ClassDefaultTimeout == "0"

HasAttr(d, k) == d[k] # ABSENT

\* p is a set of <<key, value>> pairs; the result is f updated with them.
Patch(f, p) ==
    [k \in DOMAIN f |->
        IF \E pr \in p : pr[1] = k THEN (CHOOSE pr \in p : pr[1] = k)[2] ELSE f[k]]

\* Process-wide settings defaults (settings.SSH.*), read by __init__.
SettingsDefault ==
    [username |-> "root", password |-> "pw", timeout |-> "60", port |-> "22",
     key_filename |-> NONE, ipv6 |-> "False", ipv4_fallback |-> "True"]

\* Container instances a Host can be linked to: the runtime client and
\* whether the instance publishes port 22.
ContInsts == {"podman", "docker", "podman22"}
Ports22(c) == IF c = "podman22" THEN "2222" ELSE NONE
ClientOf(c) == IF c = "docker" THEN "docker" ELSE "podman"

----------------------------------------------------------------------------
(* Host.__init__ *)

\* lines 54-56: what a construction does at the validation gate when the
\* flag is flag and the validator would return (valid) or raise: "no"
\* (the validator is not called), "passed" or "raised".
GateOf(flag, valid) == IF flag THEN "no" ELSE IF valid THEN "passed" ELSE "raised"

\* FlagAfter with line 57 placed before the call of the validator
FlagAfterEarly(flag, gate) == flag \/ gate \in {"passed", "raised"}

\* line 57: SETTINGS_VALIDATED once the gate is behind
FlagAfter(flag, gate) == flag \/ gate = "passed"

\* line 59: kwargs.get("hostname") or kwargs.get("ip")
HostnameOf(kw) == Or(Get(kw, "hostname", NONE), Get(kw, "ip", NONE))

\* IdentityOk testing that a keyword was passed, not that it is usable
IdentityOkPresence(kw, inReconstruct) ==
    kw["hostname"] # ABSENT \/ kw["ip"] # ABSENT \/ inReconstruct

\* lines 60-67: the identity check; TRUE when construction may go on.
IdentityOk(kw, inReconstruct) == Truthy(HostnameOf(kw)) \/ inReconstruct

\* The keywords popped on lines 68-75.
Popped ==
    {"name", "username", "password", "connection_timeout", "port",
     "key_filename", "ipv6", "ipv4_fallback"}

\* lines 59-76: the instance __dict__ when __init__ returns.
InitDict(kw) ==
    LET base ==
            [k \in Keys |->
                CASE k = "hostname" -> HostnameOf(kw)
                  [] k = "name" -> Get(kw, "name", NONE)
                  [] k = "username" -> Get(kw, "username", SettingsDefault.username)
                  [] k = "password" -> Get(kw, "password", SettingsDefault.password)
                  [] k = "timeout" -> Get(kw, "connection_timeout", SettingsDefault.timeout)
                  [] k = "port" -> Get(kw, "port", SettingsDefault.port)
                  [] k = "key_filename" -> Get(kw, "key_filename", SettingsDefault.key_filename)
                  [] k = "ipv6" -> Get(kw, "ipv6", SettingsDefault.ipv6)
                  [] k = "ipv4_fallback" -> Get(kw, "ipv4_fallback", SettingsDefault.ipv4_fallback)
                  [] OTHER -> ABSENT]
    IN  \* line 76: every keyword that was not popped becomes an attribute
        [k \in Keys |->
            IF k \notin Popped /\ kw[k] # ABSENT THEN kw[k] ELSE base[k]]

\* line 60-67 raised: only hostname has been assigned.
FailedDict(kw) == [NoKw EXCEPT !["hostname"] = HostnameOf(kw)]

\* InitSession taking the first session of the process
InitSessionEager == 0 + 1

\* line 77
InitSession == 0

----------------------------------------------------------------------------
(* Session objects *)

\* The arguments a backend constructor is called with
NoArgs ==
    [hostname |-> ABSENT, port |-> ABSENT, username |-> ABSENT,
     password |-> ABSENT, key_filename |-> ABSENT, timeout |-> ABSENT,
     runtime |-> ABSENT]

\* A session object: the backend kind, the Host it was built for and how
\* often disconnect was called on it.
NewSession(kind, h) == [kind |-> kind, host |-> h, disconnects |-> 0]

\* self._settings.get("SSH", {}).get(KEY, default): the settings object
\* "cfg" carries the SSH section, the settings object "empty" does not.
SettingsGet(s, key, default) == IF s = "cfg" THEN SettingsDefault[key] ELSE default

\* lines 118-143: the keyword arguments of make_session
MakeSessionArgs(d) ==
    [hostname |-> d["hostname"],
     port |-> Get(d, "port", SettingsGet(d["_settings"], "port", "22")),
     username |-> Get(d, "user", SettingsGet(d["_settings"], "username", d["DEFAULT_USER"])),
     password |-> Get(d, "password", SettingsGet(d["_settings"], "password", NONE)),
     key_filename |-> Get(d, "key_filename", SettingsGet(d["_settings"], "key_filename", NONE)),
     timeout |-> Get(d, "timeout", SettingsGet(d["_settings"], "timeout", "60")),
     runtime |-> ABSENT]

\* lines 110-112: ContainerSession(self, kwargs.get("runtime"), settings_obj=...)
\* line 98:       ContainerSession(self, runtime=runtime)
ContainerArgs(runtime) == [NoArgs EXCEPT !.runtime = runtime]

----------------------------------------------------------------------------
(* Host.connect and the session property *)

\* ConnectSelect looking at is_container only
ConnectSelectMarkOnly(d) ==
    IF Truthy(Get(d, "is_container", NONE)) THEN "container" ELSE "ssh"

\* line 107: the backend connect() chooses
ConnectSelect(d) ==
    IF Truthy(Get(d, "is_container", NONE)) \/ Truthy(Get(d, "_cont_inst", NONE))
    THEN "container"
    ELSE "ssh"

\* lines 110-143: the attributes the chosen branch reads before the
\* backend constructor is called; a missing one raises AttributeError.
CanBuild(d, sel) ==
    IF sel = "container"
    THEN HasAttr(d, "_settings")
    ELSE HasAttr(d, "_settings") /\ HasAttr(d, "DEFAULT_USER")

\* lines 110 and 118: "self.session = new".  session is a property with a
\* getter only (lines 85-86), so the assignment raises AttributeError and
\* _session keeps its value.
SetSessionProperty(cur, new) == [session |-> cur, result |-> "AttributeError"]

\* lines 103-143: connect(**kw) on a Host with __dict__ d and _session cur,
\* when ss are the sessions created so far.
ConnectOutcome(h, d, cur, ss, kw) ==
    LET d2 == Patch(d, kw)   \* lines 105-106
        sel == ConnectSelect(d2)
        new == Len(ss) + 1
        args == IF sel = "container"
                THEN ContainerArgs(IF \E pr \in kw : pr[1] = "runtime"
                                   THEN d2["runtime"] ELSE NONE)
                ELSE MakeSessionArgs(d2)
        set == SetSessionProperty(cur, new)
    IN  IF CanBuild(d2, sel)
        THEN [dict |-> d2, session |-> set.session,
              sessions |-> Append(ss, NewSession(sel, h)), args |-> args,
              selected |-> sel, created |-> new, result |-> set.result]
        ELSE [dict |-> d2, session |-> cur, sessions |-> ss, args |-> NoArgs,
              selected |-> sel, created |-> 0, result |-> "AttributeError"]

\* line 94: a container Host whose instance publishes no port 22
NonSshContainer(d) == HasAttr(d, "_cont_inst") /\ ~Truthy(Ports22(d["_cont_inst"]))

\* SessionOutcome keeping one container session for the whole class
SessionOutcomeShared(h, d, cur, ss) ==
    IF cur # 0
    THEN [dict |-> d, session |-> cur, sessions |-> ss, args |-> NoArgs,
          selected |-> "none", created |-> 0, result |-> "ok"]
    ELSE IF NonSshContainer(d)
    THEN IF ss # <<>>
         THEN [dict |-> d, session |-> Len(ss), sessions |-> ss, args |-> NoArgs,
               selected |-> "container", created |-> 0, result |-> "ok"]
         ELSE [dict |-> d, session |-> Len(ss) + 1,
               sessions |-> Append(ss, NewSession("container", h)),
               args |-> ContainerArgs(ClientOf(d["_cont_inst"])),
               selected |-> "container", created |-> Len(ss) + 1, result |-> "ok"]
    ELSE ConnectOutcome(h, d, cur, ss, {})

\* SessionOutcome without the check of line 92
SessionOutcomeNoCache(h, d, cur, ss) ==
    IF NonSshContainer(d)
    THEN [dict |-> d, session |-> Len(ss) + 1,
          sessions |-> Append(ss, NewSession("container", h)),
          args |-> ContainerArgs(ClientOf(d["_cont_inst"])),
          selected |-> "container", created |-> Len(ss) + 1, result |-> "ok"]
    ELSE ConnectOutcome(h, d, cur, ss, {})

\* SessionOutcome building the SSH backend on line 98
SessionOutcomeSshOnly(h, d, cur, ss) ==
    IF cur # 0
    THEN [dict |-> d, session |-> cur, sessions |-> ss, args |-> NoArgs,
          selected |-> "none", created |-> 0, result |-> "ok"]
    ELSE IF NonSshContainer(d)
    THEN [dict |-> d, session |-> Len(ss) + 1,
          sessions |-> Append(ss, NewSession("ssh", h)),
          args |-> MakeSessionArgs(d),
          selected |-> "ssh", created |-> Len(ss) + 1, result |-> "ok"]
    ELSE ConnectOutcome(h, d, cur, ss, {})

\* lines 85-101: a read of the session property
SessionOutcome(h, d, cur, ss) ==
    IF cur # 0
    THEN [dict |-> d, session |-> cur, sessions |-> ss, args |-> NoArgs,
          selected |-> "none", created |-> 0, result |-> "ok"]
    ELSE IF NonSshContainer(d)
    THEN [dict |-> d, session |-> Len(ss) + 1,
          sessions |-> Append(ss, NewSession("container", h)),
          args |-> ContainerArgs(ClientOf(d["_cont_inst"])),
          selected |-> "container", created |-> Len(ss) + 1, result |-> "ok"]
    ELSE ConnectOutcome(h, d, cur, ss, {})

\* ExecuteTimeout written as "timeout or self.default_timeout"
ExecuteTimeoutOr(d, timeout) ==
    Or(timeout, Get(d, "default_timeout", ClassDefaultTimeout))

\* line 172
ExecuteTimeout(d, timeout) ==
    IF timeout = NONE THEN Get(d, "default_timeout", ClassDefaultTimeout) ELSE timeout

----------------------------------------------------------------------------
(* Host.to_dict *)

\* lines 180-193
keep_keys ==
    {"hostname", "_broker_provider", "_broker_args", "tower_inventory",
     "deploy_network_type", "job_id", "_attrs", "ip", "os_distribution",
     "os_distribution_version", "reported_devices", "exposed_ports"}

\* self._prov_inst.instance
InstanceOf(p) == IF p = "prov1" THEN "inst1" ELSE "inst2"

\* The whole instance __dict__, _session included.
FullDict(d, cur) ==
    [d EXCEPT !["_session"] = IF cur = 0 THEN NONE ELSE "session-object"]

\* ToDictOf without the filter of line 199
ToDictOfUnfiltered(fd) ==
    [k \in Keys |->
        CASE k = "name" -> Get(fd, "name", NONE)
          [] k = "_broker_provider_instance" -> InstanceOf(fd["_prov_inst"])
          [] k = "type" -> "host"
          [] OTHER -> fd[k]]

\* lines 194-200: the record to_dict returns for the instance __dict__ fd
\* (it needs _prov_inst, see ToDict).
ToDictOf(fd) ==
    [k \in Keys |->
        CASE k = "name" -> Get(fd, "name", NONE)
          [] k = "_broker_provider_instance" -> InstanceOf(fd["_prov_inst"])
          [] k = "type" -> "host"
          [] OTHER -> IF k \in keep_keys THEN fd[k] ELSE ABSENT]

\* The keys of a record
KeysOf(r) == {k \in DOMAIN r : r[k] # ABSENT}

----------------------------------------------------------------------------
(* Inputs *)

Named == [NoKw EXCEPT !["hostname"] = "h1"]

\* hostname / ip combinations, nothing else given
IdVals == {ABSENT, NONE, "", "h1"}
IpVals == {ABSENT, NONE, "", "10.0.0.1"}
IdKw == {[NoKw EXCEPT !["hostname"] = a, !["ip"] = b] : a \in IdVals, b \in IpVals}

\* The link to a container instance and the is_container mark
ContPatches ==
    {c \cup i : c \in {{}, {<<"_cont_inst", "podman">>}, {<<"_cont_inst", "podman22">>}},
                i \in {{}, {<<"is_container", "True">>}}}

\* What connect() needs to reach a backend constructor
EnvPatches ==
    {{}, {<<"_settings", "cfg">>},
     {<<"_settings", "cfg">>, <<"DEFAULT_USER", "admin">>}}

\* Other options
OptPatches ==
    {{<<"_cont_inst", "docker">>, <<"default_timeout", "5">>},
     {<<"_settings", "empty">>, <<"DEFAULT_USER", "admin">>, <<"username", "alice">>,
      <<"password", "s3cret">>, <<"port", "2222">>, <<"key_filename", "id_rsa">>,
      <<"connection_timeout", "5">>}}

\* The keyword bundles Host(...) is called with where sessions are studied
SessionKwargs ==
    IdKw
    \cup {Patch(Patch(Named, c), e) : c \in ContPatches, e \in EnvPatches}
    \cup {Patch(Named, x) : x \in OptPatches}

\* Extension attributes and credentials
ExtPatches ==
    {{<<"_prov_inst", "prov1">>},
     {<<"_prov_inst", "prov1">>, <<"name", "n1">>, <<"job_id", "42">>, <<"foo", "bar">>},
     {<<"_prov_inst", "prov2">>, <<"ip", "10.0.0.1">>, <<"username", "alice">>,
      <<"password", "s3cret">>, <<"port", "2222">>, <<"key_filename", "id_rsa">>,
      <<"connection_timeout", "5">>, <<"_cont_inst", "podman">>}}

\* The keyword bundles Host(...) is called with where records are studied
SerialKwargs ==
    {Named, NoKw}
    \cup {Patch(Named, x) : x \in ExtPatches}
    \cup {Patch(NoKw, x) : x \in ExtPatches}

\* The keyword bundles connect(...) is called with
ConnectKwChoices == {{}, {<<"runtime", "docker">>}}

\* The timeout arguments execute(...) is called with
TimeoutChoices == {NONE, "0", "7"}

\* Attributes set on a Host after construction
SetAttrChoices == {<<"job_id", "43">>, <<"foo", "baz">>}

----------------------------------------------------------------------------
(* State *)

\* A call and its outcome: the method, the Host, how it ended ("ok" or the
\* exception), the backend branch it took, the session it created, the
\* arguments the backend constructor got, the session whose run or
\* disconnect it called, the timeout argument of execute and the timeout
\* passed to run, and for __init__ whether an identity was given, whether
\* the call came through reconstruct_host, and whether it called the
\* settings validator ("no", "passed" or "raised"), and for _pkg_mgr the
\* package managers installed on the host and the value returned.
Event(op, h, result, selected, created, used, arg, timeout, ident, recon) ==
    [op |-> op, host |-> h, result |-> result, selected |-> selected,
     created |-> created, args |-> NoArgs, used |-> used, arg |-> arg,
     timeout |-> timeout, ident |-> ident, recon |-> recon, validated |-> "no",
     installed |-> {}, ret |-> ABSENT]

\* A thread that is not inside __init__: pc is the line it is at, kw and
\* recon the call it is making, validated whether it has called the
\* settings validator ("no", "passed" or "raised").
Idle == [pc |-> "idle", validated |-> "no", kw |-> NoKw, recon |-> FALSE]

NoEvent == Event("none", "", "ok", "none", 0, 0, ABSENT, ABSENT, FALSE, FALSE)

Init ==
    /\ SETTINGS_VALIDATED = FALSE   \* line 26
    /\ status = [h \in Hosts |-> "unbuilt"]
    /\ dict = [h \in Hosts |-> NoKw]
    /\ _session = [h \in Hosts |-> 0]
    /\ sessions = <<>>
    /\ record = NoKw
    /\ thread = [h \in Hosts |-> Idle]
    /\ ev = NoEvent

\* lines 53-77: Host(**kw) into slot h.  inReconstruct: a frame named
\* reconstruct_host is on the call stack.  valid: whether
\* settings.validators.validate(only="SSH") returns (it raises otherwise).
Build(op, h, kw, inReconstruct, valid) ==
    LET gate == GateOf(SETTINGS_VALIDATED, valid)
        result == IF gate = "raised" THEN "ValidationError"
                  ELSE IF IdentityOk(kw, inReconstruct) THEN "ok" ELSE "HostError"
    IN  /\ status[h] = "unbuilt"
        /\ UNCHANGED <<sessions, record, thread>>
        /\ ev' = [Event(op, h, result, "none", 0, 0, ABSENT, ABSENT,
                        Truthy(HostnameOf(kw)), inReconstruct)
                    EXCEPT !.validated = gate]
        \* lines 54-57: the flag is set once the validator has returned
        /\ SETTINGS_VALIDATED' = FlagAfter(SETTINGS_VALIDATED, gate)
        /\ CASE result = "ValidationError" ->
                  \* line 56 raised: nothing has been assigned
                  /\ status' = [status EXCEPT ![h] = "failed"]
                  /\ UNCHANGED <<dict, _session>>
             [] result = "HostError" ->
                  \* line 67 raised: only hostname has been assigned
                  /\ status' = [status EXCEPT ![h] = "failed"]
                  /\ dict' = [dict EXCEPT ![h] = FailedDict(kw)]
                  /\ UNCHANGED _session
             [] OTHER ->
                  /\ status' = [status EXCEPT ![h] = "live"]
                  /\ dict' = [dict EXCEPT ![h] = InitDict(kw)]
                  /\ _session' = [_session EXCEPT ![h] = InitSession]

\* Host(**kw)
Construct(h, choices) ==
    \E kw \in choices, inReconstruct \in BOOLEAN, valid \in BOOLEAN :
        Build("init", h, kw, inReconstruct, valid)

\* lines 219-222: Host.from_dict(record), the new Host going to slot h
FromDict(h) ==
    /\ record # NoKw
    /\ \E inReconstruct \in BOOLEAN, valid \in BOOLEAN :
        Build("from_dict", h, [record EXCEPT !["from_dict"] = "True"],
              inReconstruct, valid)

\* a read of host.session (lines 85-101)
ReadSession(h) ==
    /\ status[h] = "live"
    /\ LET o == SessionOutcome(h, dict[h], _session[h], sessions)
       IN  /\ Len(o.sessions) <= MaxSessions
           /\ dict' = [dict EXCEPT ![h] = o.dict]
           /\ _session' = [_session EXCEPT ![h] = o.session]
           /\ sessions' = o.sessions
           /\ ev' = [Event("session", h, o.result, o.selected, o.created,
                           0, ABSENT, ABSENT, FALSE, FALSE) EXCEPT !.args = o.args]
    /\ UNCHANGED <<thread, SETTINGS_VALIDATED, status, record>>

\* host.connect(**kw) (lines 103-143)
Connect(h) ==
    /\ status[h] = "live"
    /\ \E kw \in ConnectKwChoices :
        LET o == ConnectOutcome(h, dict[h], _session[h], sessions, kw)
        IN  /\ Len(o.sessions) <= MaxSessions
            /\ dict' = [dict EXCEPT ![h] = o.dict]
            /\ _session' = [_session EXCEPT ![h] = o.session]
            /\ sessions' = o.sessions
            /\ ev' = [Event("connect", h, o.result, o.selected, o.created,
                            0, ABSENT, ABSENT, FALSE, FALSE) EXCEPT !.args = o.args]
    /\ UNCHANGED <<thread, SETTINGS_VALIDATED, status, record>>

\* host.execute(command, timeout) (lines 162-176)
Execute(h) ==
    /\ status[h] = "live"
    /\ \E timeout \in TimeoutChoices :
        LET t == ExecuteTimeout(dict[h], timeout)
            o == SessionOutcome(h, dict[h], _session[h], sessions)
        IN  /\ Len(o.sessions) <= MaxSessions
            /\ dict' = [dict EXCEPT ![h] = o.dict]
            /\ _session' = [_session EXCEPT ![h] = o.session]
            /\ sessions' = o.sessions
            /\ ev' = IF o.result = "ok"
                     THEN \* line 174: self.session.run(command, timeout=timeout)
                          [Event("execute", h, "ok", o.selected, o.created,
                                 o.session, timeout, t, FALSE, FALSE)
                              EXCEPT !.args = o.args]
                     ELSE [Event("execute", h, o.result, o.selected, o.created,
                                 0, timeout, ABSENT, FALSE, FALSE)
                              EXCEPT !.args = o.args]
    /\ UNCHANGED <<thread, SETTINGS_VALIDATED, status, record>>

\* CloseOutcome with line 149 in a finally clause
CloseOutcomeFinally(cur, ss, raises) ==
    IF cur = 0
    THEN [session |-> 0, sessions |-> ss, used |-> 0, result |-> "ok"]
    ELSE [session |-> 0, sessions |-> [ss EXCEPT ![cur].disconnects = @ + 1],
          used |-> cur, result |-> IF raises THEN "DisconnectError" ELSE "ok"]

\* CloseOutcome without line 149
CloseOutcomeKeep(cur, ss, raises) ==
    IF cur = 0
    THEN [session |-> 0, sessions |-> ss, used |-> 0, result |-> "ok"]
    ELSE [session |-> cur, sessions |-> [ss EXCEPT ![cur].disconnects = @ + 1],
          used |-> cur, result |-> IF raises THEN "DisconnectError" ELSE "ok"]

\* lines 147-149 on _session value cur: disconnect is called on session
\* cur when there is one; raises tells whether that call raises.
CloseOutcome(cur, ss, raises) ==
    IF cur = 0
    THEN [session |-> 0, sessions |-> ss, used |-> 0, result |-> "ok"]
    ELSE LET ss2 == [ss EXCEPT ![cur].disconnects = @ + 1]
         IN  IF raises
             THEN [session |-> cur, sessions |-> ss2, used |-> cur,
                   result |-> "DisconnectError"]
             ELSE [session |-> 0, sessions |-> ss2, used |-> cur, result |-> "ok"]

\* host.close() (lines 145-149)
Close(h) ==
    /\ status[h] = "live"
    /\ \E raises \in BOOLEAN :
        LET o == CloseOutcome(_session[h], sessions, raises)
        IN  /\ raises => _session[h] # 0
            /\ _session[h] # 0 => sessions[_session[h]].disconnects < MaxDisconnects
            /\ _session' = [_session EXCEPT ![h] = o.session]
            /\ sessions' = o.sessions
            /\ ev' = Event("close", h, o.result, "none", 0, o.used,
                           ABSENT, ABSENT, FALSE, FALSE)
    /\ UNCHANGED <<thread, SETTINGS_VALIDATED, status, dict, record>>

\* host.to_dict() (lines 178-200)
ToDict(h) ==
    /\ status[h] = "live"
    /\ IF HasAttr(dict[h], "_prov_inst")
       THEN /\ record' = ToDictOf(FullDict(dict[h], _session[h]))
            /\ ev' = Event("to_dict", h, "ok", "none", 0, 0, ABSENT, ABSENT, FALSE, FALSE)
       ELSE \* line 196
            /\ record' = record
            /\ ev' = Event("to_dict", h, "AttributeError", "none", 0, 0,
                           ABSENT, ABSENT, FALSE, FALSE)
    /\ UNCHANGED <<thread, SETTINGS_VALIDATED, status, dict, _session, sessions>>

\* host.<key> = value, from outside the class
SetAttr(h) ==
    /\ status[h] = "live"
    /\ \E kv \in SetAttrChoices :
        /\ dict[h][kv[1]] # kv[2]
        /\ dict' = [dict EXCEPT ![h] = Patch(dict[h], {kv})]
    /\ ev' = Event("setattr", h, "ok", "none", 0, 0, ABSENT, ABSENT, FALSE, FALSE)
    /\ UNCHANGED <<thread, SETTINGS_VALIDATED, status, _session, sessions, record>>

\* FinalizerSession of a class without __del__
FinalizerSessionNever(st, cur) == 0

\* line 81: the session the finalizer closes, for a Host in status st with
\* _session cur; a Host whose __init__ raised has no _session attribute.
FinalizerSession(st, cur) == IF st = "live" THEN cur ELSE 0

\* lines 79-82: the Host in slot h is garbage collected; an exception
\* raised inside __del__ is swallowed by the interpreter.  The sessions
\* built for it lose their Host.
Del(h) ==
    /\ status[h] # "unbuilt"
    /\ \E raises \in BOOLEAN :
        LET cur == FinalizerSession(status[h], _session[h])
            o == CloseOutcome(cur, sessions, raises)
        IN  /\ raises => cur # 0
            /\ cur # 0 => sessions[cur].disconnects < MaxDisconnects
            /\ sessions' = [i \in DOMAIN sessions |->
                               IF o.sessions[i].host = h
                               THEN [o.sessions[i] EXCEPT !.host = ""]
                               ELSE o.sessions[i]]
            /\ ev' = Event("del", h, "ok", "none", 0, o.used,
                           ABSENT, ABSENT, FALSE, FALSE)
    /\ status' = [status EXCEPT ![h] = "unbuilt"]
    /\ dict' = [dict EXCEPT ![h] = NoKw]
    /\ _session' = [_session EXCEPT ![h] = 0]
    /\ UNCHANGED <<thread, SETTINGS_VALIDATED, record>>

\* Sessions: one Host at a time is built, used, closed and collected.
Next ==
    \E h \in MainHosts :
        \/ Construct(h, SessionKwargs)
        \/ ReadSession(h)
        \/ Connect(h)
        \/ Execute(h)
        \/ Close(h)
        \/ Del(h)

Spec == Init /\ [][Next]_vars

\* Records: a Host is built in slot h1, gets attributes set, is serialized
\* and rebuilt from its record in slot h2.
NextSer ==
    \/ Construct("h1", SerialKwargs)
    \/ SetAttr("h1")
    \/ ReadSession("h1")
    \/ ToDict("h1")
    \/ FromDict("h2")
    \/ \E h \in Hosts : Del(h)

SpecSer == Init /\ [][NextSer]_vars

----------------------------------------------------------------------------
(* Host.__init__ step by step, one thread per Host slot *)

\* line 54: thread t enters Host(**kw) and tests the flag
ThreadCheck(t) ==
    /\ thread[t].pc = "idle"
    /\ status[t] = "unbuilt"
    /\ \E kw \in IdKw, inReconstruct \in BOOLEAN :
        thread' = [thread EXCEPT ![t] =
                      [pc |-> IF SETTINGS_VALIDATED THEN "line58" ELSE "line56",
                       validated |-> "no", kw |-> kw, recon |-> inReconstruct]]
    /\ UNCHANGED <<SETTINGS_VALIDATED, status, dict, _session, sessions, record, ev>>

\* line 56: settings.validators.validate(only="SSH") returns or raises
ThreadValidate(t) ==
    /\ thread[t].pc = "line56"
    /\ \E valid \in BOOLEAN :
        LET gate == GateOf(FALSE, valid)
        IN  IF gate = "passed"
            THEN /\ thread' = [thread EXCEPT ![t].pc = "line57",
                                             ![t].validated = gate]
                 /\ UNCHANGED <<status, ev>>
            ELSE /\ thread' = [thread EXCEPT ![t].pc = "done",
                                             ![t].validated = gate]
                 /\ status' = [status EXCEPT ![t] = "failed"]
                 /\ ev' = [Event("init", t, "ValidationError", "none", 0, 0,
                                 ABSENT, ABSENT, Truthy(HostnameOf(thread[t].kw)),
                                 thread[t].recon)
                             EXCEPT !.validated = gate]
    /\ UNCHANGED <<SETTINGS_VALIDATED, dict, _session, sessions, record>>

\* line 57: SETTINGS_VALIDATED = True
ThreadSetFlag(t) ==
    /\ thread[t].pc = "line57"
    /\ SETTINGS_VALIDATED' = FlagAfter(SETTINGS_VALIDATED, thread[t].validated)
    /\ thread' = [thread EXCEPT ![t].pc = "line58"]
    /\ UNCHANGED <<status, dict, _session, sessions, record, ev>>

\* lines 58-77: the rest of __init__
ThreadFinish(t) ==
    /\ thread[t].pc = "line58"
    /\ LET kw == thread[t].kw
           ok == IdentityOk(kw, thread[t].recon)
       IN  /\ ev' = [Event("init", t, IF ok THEN "ok" ELSE "HostError", "none",
                           0, 0, ABSENT, ABSENT, Truthy(HostnameOf(kw)),
                           thread[t].recon)
                       EXCEPT !.validated = thread[t].validated]
           /\ IF ok
              THEN /\ status' = [status EXCEPT ![t] = "live"]
                   /\ dict' = [dict EXCEPT ![t] = InitDict(kw)]
                   /\ _session' = [_session EXCEPT ![t] = InitSession]
              ELSE /\ status' = [status EXCEPT ![t] = "failed"]
                   /\ dict' = [dict EXCEPT ![t] = FailedDict(kw)]
                   /\ UNCHANGED _session
    /\ thread' = [thread EXCEPT ![t].pc = "done"]
    /\ UNCHANGED <<SETTINGS_VALIDATED, sessions, record>>

\* Threads: every Host slot is built by a thread of its own, the threads
\* interleaving between the lines of the validation gate.
NextThreads ==
    \E t \in Hosts :
        \/ ThreadCheck(t)
        \/ ThreadValidate(t)
        \/ ThreadSetFlag(t)
        \/ ThreadFinish(t)

SpecThreads == Init /\ [][NextThreads]_vars

----------------------------------------------------------------------------
(* Host._pkg_mgr *)

\* line 157: the candidates, in the order they are tried
PkgMgrs == <<"yum", "dnf", "zypper">>

\* The sets of package managers a remote host can have installed
InstalledChoices == SUBSET {"yum", "dnf", "zypper"}

\* line 158: what execute("which <mgr>") returns on a host where the
\* managers in installed exist: the path of the program, or the message
\* "which: no <mgr> in (<PATH>)".
WhichOutput(mgr, installed) ==
    IF mgr \in installed THEN <<"/usr/bin/", mgr>> ELSE <<"which: ", "no", mgr, "in", " (/usr/bin)">>

\* line 158: f"no {mgr} in" in output
NoMgrIn(mgr, output) ==
    \E i \in 1..(Len(output) - 2) :
        output[i] = "no" /\ output[i + 1] = mgr /\ output[i + 2] = "in"

RECURSIVE PkgMgrOf(_, _)
\* lines 157-160: the value _pkg_mgr returns when every execute succeeds
PkgMgrOf(mgrs, installed) ==
    IF mgrs = <<>> THEN NONE
    ELSE IF NoMgrIn(Head(mgrs), WhichOutput(Head(mgrs), installed))
         THEN Head(mgrs)
         ELSE PkgMgrOf(Tail(mgrs), installed)

\* host._pkg_mgr() (lines 156-160): the first execute opens the session
\* (or raises), the later ones reuse it.
PkgMgr(h) ==
    /\ status[h] = "live"
    /\ \E installed \in InstalledChoices :
        LET o == SessionOutcome(h, dict[h], _session[h], sessions)
        IN  /\ Len(o.sessions) <= MaxSessions
            /\ dict' = [dict EXCEPT ![h] = o.dict]
            /\ _session' = [_session EXCEPT ![h] = o.session]
            /\ sessions' = o.sessions
            /\ ev' = IF o.result = "ok"
                     THEN [Event("_pkg_mgr", h, "ok", o.selected, o.created,
                                 o.session, ABSENT,
                                 ExecuteTimeout(dict[h], NONE), FALSE, FALSE)
                              EXCEPT !.args = o.args, !.installed = installed,
                                     !.ret = PkgMgrOf(PkgMgrs, installed)]
                     ELSE [Event("_pkg_mgr", h, o.result, o.selected, o.created,
                                 0, ABSENT, ABSENT, FALSE, FALSE)
                              EXCEPT !.args = o.args, !.installed = installed]
    /\ UNCHANGED <<thread, SETTINGS_VALIDATED, status, record>>

\* Probe: one Host is built, probed for its package manager, closed and
\* collected.
NextProbe ==
    \E h \in MainHosts :
        \/ Construct(h, SessionKwargs)
        \/ PkgMgr(h)
        \/ Close(h)
        \/ Del(h)

SpecProbe == Init /\ [][NextProbe]_vars

----------------------------------------------------------------------------
(* Two Hosts *)

\* The keyword bundles Host(...) is called with where two Hosts are studied
TwoKwargs ==
    {Patch(Named, {<<"_cont_inst", "podman">>}),
     Patch(Named, {<<"_cont_inst", "podman22">>, <<"_settings", "cfg">>,
                   <<"DEFAULT_USER", "admin">>})}

\* Two Hosts: the calls made on two Hosts interleave in any order.
NextTwo ==
    \E h \in Hosts :
        \/ Construct(h, TwoKwargs)
        \/ Connect(h)
        \/ Execute(h)
        \/ Close(h)
        \/ Del(h)

SpecTwo == Init /\ [][NextTwo]_vars

TypeOK ==
    /\ SETTINGS_VALIDATED \in BOOLEAN
    /\ \A h \in Hosts : status[h] \in {"unbuilt", "failed", "live"}
    /\ \A h \in Hosts : _session[h] \in 0..Len(sessions)
    /\ Len(sessions) <= MaxSessions
    /\ \A t \in Hosts : thread[t].pc \in {"idle", "line56", "line57", "line58", "done"}

----------------------------------------------------------------------------
(* Properties *)

\* The sessions built for the Host in slot h
SessionsOf(h) == {i \in DOMAIN sessions : sessions[i].host = h}

\* The last call was Host(...) with neither a usable hostname nor a usable
\* ip, from outside reconstruct_host.
AnonymousInit == ev.op = "init" /\ ~ev.ident /\ ~ev.recon

\* A Host whose construction failed has no _session and no session object.
NoHostNoSession ==
    \A h \in Hosts : status[h] = "failed" => _session[h] = 0 /\ SessionsOf(h) = {}

\* C1 as stated: Host(...) with neither hostname nor ip, outside the
\* reconstruction path, always ends in HostError and leaves no Host and
\* no session.
C1_AlwaysHostError ==
    AnonymousInit =>
        /\ ev.result = "HostError"
        /\ status[ev.host] = "failed"
        /\ NoHostNoSession

\* C1 amended: Host(...) with neither hostname nor ip, outside the
\* reconstruction path, always fails and leaves no Host and no session;
\* the error is HostError when the settings validation has passed (earlier
\* or in this call) and the validator's error when that validation raises.
C1_AlwaysFails ==
    /\ NoHostNoSession
    /\ AnonymousInit =>
        /\ status[ev.host] = "failed"
        /\ ev.result = IF ev.validated = "raised" THEN "ValidationError" ELSE "HostError"

C1_Witness == AnonymousInit /\ ev.result = "HostError" /\ status[ev.host] = "failed"

\* C2: _session is None when __init__ returns, and a Host's _session goes
\* from None to a session only in a step that is connect(), a read of the
\* session property, or execute() on that Host.
C2_NoneUntilConnectOrRead ==
    [][\A h \in Hosts :
          /\ (status[h] # "live" /\ status'[h] = "live") => _session'[h] = 0
          /\ (status[h] = "live" /\ status'[h] = "live"
                /\ _session[h] = 0 /\ _session'[h] # 0)
             => ev'.host = h /\ ev'.op \in {"connect", "session", "execute"}]_vars

\* a Host that has been through close() and a failed connect() and has no session
C2_Witness ==
    \E h \in Hosts :
        /\ status[h] = "live" /\ _session[h] = 0
        /\ ev.host = h /\ ev.op = "close" /\ SessionsOf(h) # {}

\* C3: after connect() and after execute() on a constructed Host the call
\* has returned and the session is not None.
C3_SessionAfterConnectOrExecute ==
    \A h \in Hosts :
        (status[h] = "live" /\ ev.host = h /\ ev.op \in {"connect", "execute"})
            => ev.result = "ok" /\ _session[h] # 0

\* C4: while a session is attached, a read of the session property and an
\* execute() keep that session, create no session, and execute() calls run
\* on that session.
C4_SessionReused ==
    [][\A h \in Hosts :
          (status[h] = "live" /\ _session[h] # 0
              /\ ev'.host = h /\ ev'.op \in {"session", "execute"})
          => /\ _session'[h] = _session[h]
             /\ sessions' = sessions
             /\ ev'.created = 0 /\ ev'.selected = "none" /\ ev'.result = "ok"
             /\ ev'.op = "execute" => ev'.used = _session[h]]_vars

\* execute() ran on a session that was already attached
C4_Witness ==
    /\ ev.op = "execute" /\ ev.result = "ok" /\ ev.created = 0
    /\ ev.used # 0 /\ _session[ev.host] = ev.used

\* A close() step on slot h
CloseStep(h) == ev'.op = "close" /\ ev'.host = h

\* close() without a session: no disconnect, no error, nothing changes
CloseIdle(h) ==
    (CloseStep(h) /\ _session[h] = 0)
        => /\ sessions' = sessions /\ ev'.result = "ok" /\ ev'.used = 0
           /\ _session' = _session /\ dict' = dict /\ status' = status

\* close() with a session calls disconnect once on it, and on no other
CloseDisconnectsOnce(h) ==
    (CloseStep(h) /\ _session[h] # 0)
        => /\ ev'.used = _session[h]
           /\ sessions' = [sessions EXCEPT ![_session[h]].disconnects = @ + 1]

\* C5 as stated: close() with a session calls disconnect once and leaves
\* _session None; close() without a session does nothing.
C5_CloseClears ==
    [][\A h \in Hosts :
          /\ CloseDisconnectsOnce(h)
          /\ (CloseStep(h) /\ _session[h] # 0) => _session'[h] = 0
          /\ CloseIdle(h)]_vars

\* C5 amended: close() with a session calls disconnect once; when
\* disconnect returns, _session is None afterwards, and when it raises the
\* error propagates and _session keeps the session.  close() without a
\* session calls nothing, raises nothing and changes nothing.
C5_CloseClearsUnlessRaise ==
    [][\A h \in Hosts :
          /\ CloseDisconnectsOnce(h)
          /\ (CloseStep(h) /\ _session[h] # 0)
             => /\ ev'.result \in {"ok", "DisconnectError"}
                /\ _session'[h] = IF ev'.result = "ok" THEN 0 ELSE _session[h]
          /\ CloseIdle(h)]_vars

\* close() returned after one disconnect and the session is gone
C5_Witness ==
    /\ ev.op = "close" /\ ev.result = "ok" /\ ev.used # 0
    /\ sessions[ev.used].disconnects = 1 /\ _session[ev.host] = 0

\* C6: a Host linked to a container instance without port 22 never takes
\* the SSH branch and never has an SSH session built for it or attached;
\* a read of the session property and execute() attach a container
\* session, connect() takes the container branch.
C6_ContainerNeverSsh ==
    \A h \in Hosts :
        (status[h] = "live" /\ NonSshContainer(dict[h]))
        => /\ \A i \in SessionsOf(h) : sessions[i].kind = "container"
           /\ _session[h] # 0 => sessions[_session[h]].kind = "container"
           /\ (ev.host = h /\ ev.op \in {"session", "execute", "connect"})
              => ev.selected # "ssh"
           /\ (ev.host = h /\ ev.op \in {"session", "execute"})
              => ev.result = "ok" /\ _session[h] # 0
           /\ (ev.host = h /\ ev.op = "connect") => ev.selected = "container"

\* both ways have been used on such a Host: a session attached by a read,
\* and a connect() that built a second container session
C6_Witness ==
    \E h \in Hosts :
        /\ status[h] = "live" /\ NonSshContainer(dict[h])
        /\ _session[h] # 0
        /\ ev.host = h /\ ev.op = "connect" /\ ev.created # 0
        /\ sessions[ev.created].kind = "container"

\* C7: a read of the session property that has to create the session on a
\* Host that is not a container Host without port 22 takes the SSH backend.
C7_AccessorPicksSsh ==
    \A h \in Hosts :
        (status[h] = "live" /\ ev.host = h /\ ev.op = "session"
            /\ ev.selected # "none" /\ ~NonSshContainer(dict[h]))
        => ev.selected = "ssh"

\* C8: on every Host without a session, connect() takes the backend that a
\* read of the session property takes.
C8_SameBackendRule ==
    \A h \in Hosts :
        (status[h] = "live" /\ _session[h] = 0)
        => \A kw \in ConnectKwChoices :
              ConnectOutcome(h, dict[h], 0, sessions, kw).selected
                  = SessionOutcome(h, dict[h], 0, sessions).selected

\* connect() was called on a container Host without port 22, the Host for
\* which the session property does not go through connect()
C8_Witness ==
    \E h \in Hosts :
        /\ status[h] = "live" /\ _session[h] = 0 /\ NonSshContainer(dict[h])
        /\ ~Truthy(Get(dict[h], "is_container", NONE))
        /\ ev.host = h /\ ev.op = "connect" /\ ev.selected = "container"

\* C9: execute() that reaches run passes the Host's default_timeout when
\* no timeout is given and the given timeout otherwise, 0 included, and no
\* execute() changes default_timeout.
C9_ExecuteTimeout ==
    [][\A h \in Hosts :
          (ev'.op = "execute" /\ ev'.host = h)
          => /\ dict'[h]["default_timeout"] = dict[h]["default_timeout"]
             /\ ev'.result = "ok"
                => ev'.timeout =
                      IF ev'.arg = NONE
                      THEN Get(dict[h], "default_timeout", ClassDefaultTimeout)
                      ELSE ev'.arg]_vars

\* execute(cmd, timeout=0) ran on a Host whose default_timeout is 5
C9_Witness ==
    /\ ev.op = "execute" /\ ev.result = "ok" /\ ev.arg = "0" /\ ev.timeout = "0"
    /\ dict[ev.host]["default_timeout"] = "5"

\* The keys a serialized record may have
AllowList ==
    {"name", "_broker_provider_instance", "type", "hostname", "_broker_provider",
     "_broker_args", "tower_inventory", "deploy_network_type", "job_id", "_attrs",
     "ip", "os_distribution", "os_distribution_version", "reported_devices",
     "exposed_ports"}

\* Connection settings and the session
Credentials ==
    {"username", "password", "key_filename", "port", "timeout",
     "connection_timeout", "_session"}

\* C10: every key of a record made by to_dict() is in the allow-list, and
\* no connection setting and no session is in it.
C10_OnlyAllowListed ==
    /\ KeysOf(record) \subseteq AllowList
    /\ KeysOf(record) \cap Credentials = {}

\* to_dict() returned for a Host with explicit credentials, an attached
\* session, an attribute set after construction and one outside the list
C10_Witness ==
    /\ ev.op = "to_dict" /\ ev.result = "ok" /\ record # NoKw
    /\ dict[ev.host]["password"] = "s3cret" /\ _session[ev.host] # 0
    /\ dict[ev.host]["job_id"] = "43" /\ dict[ev.host]["foo"] = "baz"
    /\ record["job_id"] = "43"

\* C11: from_dict(to_dict(h)) for a Host h with a provider link returns a
\* Host with the hostname, the name and every allow-listed attribute of h.
C11_RoundTrip ==
    [][\A h, g \in Hosts :
          (/\ ev'.op = "from_dict" /\ ev'.host = g
           /\ status[h] = "live" /\ HasAttr(dict[h], "_prov_inst")
           /\ record = ToDictOf(FullDict(dict[h], _session[h])))
          => /\ ev'.result = "ok" /\ status'[g] = "live"
             /\ dict'[g]["hostname"] = dict[h]["hostname"]
             /\ dict'[g]["name"] = dict[h]["name"]
             /\ \A k \in keep_keys \cap Keys :
                   HasAttr(dict[h], k) => dict'[g][k] = dict[h][k]]_vars

\* C12: from_dict on a record with neither hostname nor ip does not raise
\* HostError, whoever calls it.
C12_FromDictNeverHostError ==
    (ev.op = "from_dict" /\ ~ev.ident) => ev.result # "HostError"

\* C13: when Hosts are constructed from several threads at once, the
\* settings validation returns at most once in the process, and a Host is
\* built only after it has.
C13_ValidatesOnce ==
    /\ Cardinality({t \in Hosts : thread[t].validated = "passed"}) <= 1
    /\ (\E h \in Hosts : status[h] = "live")
          => \E t \in Hosts : thread[t].validated = "passed"

\* The first candidate, in the order yum, dnf, zypper, that is installed
FirstInstalled(installed) ==
    IF \E i \in DOMAIN PkgMgrs : PkgMgrs[i] \in installed
    THEN PkgMgrs[CHOOSE i \in DOMAIN PkgMgrs :
                    /\ PkgMgrs[i] \in installed
                    /\ \A j \in 1..(i - 1) : PkgMgrs[j] \notin installed]
    ELSE NONE

\* C14: _pkg_mgr returns the first of yum, dnf, zypper that is installed on
\* the host, and None when none of them is.
C14_FirstInstalled ==
    (ev.op = "_pkg_mgr" /\ ev.result = "ok") => ev.ret = FirstInstalled(ev.installed)

\* C15: no session is attached to two Hosts, an attached session was built
\* for the Host that holds it, and a call on one Host leaves the session
\* reference, the attributes and the status of every other Host unchanged.
C15_IndependentSessions ==
    [][/\ \A h, g \in Hosts :
             (h # g /\ _session'[h] # 0) => _session'[h] # _session'[g]
       /\ \A h \in Hosts :
             _session'[h] # 0 => sessions'[_session'[h]].host = h
       /\ \A h \in Hosts :
             ev'.host = h
                => \A g \in Hosts \ {h} :
                      /\ _session'[g] = _session[g]
                      /\ dict'[g] = dict[g]
                      /\ status'[g] = status[g]]_vars

\* Both Hosts hold a session, each its own, and the second has just run a
\* command while the first kept its session.
C15_Witness ==
    /\ ev.op = "execute" /\ ev.host = "h2" /\ ev.result = "ok"
    /\ _session["h1"] # 0 /\ _session["h2"] # 0
    /\ _session["h1"] # _session["h2"]

\* C16: a Host built outside reconstruct_host has a non-empty hostname when
\* __init__ returns, whatever hostname and ip were passed.
C16_HostnameNonEmpty ==
    (ev.op = "init" /\ ev.result = "ok" /\ ~ev.recon /\ status[ev.host] = "live")
       => Truthy(dict[ev.host]["hostname"])

\* The connection attributes __init__ resolves on lines 69-72
Resolved == {"username", "password", "port", "key_filename", "timeout"}

\* C17: the SSH backend constructor gets the username, password, port,
\* key_filename and timeout that __init__ resolved for the Host.
C17_ResolvedArgs ==
    (ev.selected = "ssh" /\ ev.created # 0)
       => \A k \in Resolved : ev.args[k] = dict[ev.host][k]

\* The finalizer of Host h has run in this step
DelStep(h) == ev'.op = "del" /\ ev'.host = h

\* C18: a close() whose disconnect raises leaves _session as it was (the
\* same session, not None), and every close() or finalizer of a Host with a
\* session attached calls disconnect on that session, also after a close()
\* that raised.
C18_RaisingCloseKeepsSession ==
    [][\A h \in Hosts :
          /\ (CloseStep(h) /\ ev'.result = "DisconnectError")
                => /\ _session[h] # 0
                   /\ _session'[h] = _session[h]
                   /\ ev'.used = _session[h]
          /\ ((CloseStep(h) \/ DelStep(h)) /\ _session[h] # 0)
                => /\ ev'.used = _session[h]
                   /\ sessions'[_session[h]].disconnects
                         = sessions[_session[h]].disconnects + 1]_vars

\* A close() has called disconnect a second time on the session it found
\* attached: the first call raised and left the session in place.
C18_Witness ==
    /\ ev.op = "close" /\ ev.used # 0
    /\ sessions[ev.used].disconnects = 2

\* C19: the finalizer always ends without error; it calls disconnect once
\* on the session still attached, and calls nothing when the Host was
\* closed or when its construction failed.
C19_FinalizerDisconnects ==
    [][\A h \in Hosts :
          DelStep(h)
             => /\ ev'.result = "ok"
                /\ (status[h] = "live" /\ _session[h] # 0)
                      => /\ ev'.used = _session[h]
                         /\ sessions'[_session[h]].disconnects
                               = sessions[_session[h]].disconnects + 1
                /\ (status[h] # "live" \/ _session[h] = 0) => ev'.used = 0
                /\ \A i \in DOMAIN sessions :
                      i # _session[h]
                         => sessions'[i].disconnects = sessions[i].disconnects]_vars

\* The finalizer has disconnected the session that was still attached, for
\* the first time.
C19_Witness ==
    /\ ev.op = "del" /\ ev.used # 0
    /\ sessions[ev.used].disconnects = 1

\* __init__ has run for Host slot h in this step
ConstructStep(h) == status[h] = "unbuilt" /\ status'[h] # "unbuilt"

\* C20: the flag never goes back to False and rises only in a construction
\* whose validation returned; a construction validates exactly when the
\* flag is False; when the validation raises the construction fails and
\* the flag stays False; and no Host exists while the flag is False.
C20_FlagSetAfterValidation ==
    [][/\ SETTINGS_VALIDATED => SETTINGS_VALIDATED'
       /\ (~SETTINGS_VALIDATED /\ SETTINGS_VALIDATED')
             => ev'.op = "init" /\ ev'.validated = "passed"
       /\ \A h \in Hosts :
             ConstructStep(h)
                => /\ SETTINGS_VALIDATED => ev'.validated = "no"
                   /\ ~SETTINGS_VALIDATED => ev'.validated \in {"passed", "raised"}
                   /\ ev'.validated = "passed" => SETTINGS_VALIDATED'
                   /\ ev'.validated = "raised"
                         => /\ ev'.result = "ValidationError"
                            /\ status'[h] = "failed"
                            /\ ~SETTINGS_VALIDATED'
       /\ (\E h \in Hosts : status'[h] = "live") => SETTINGS_VALIDATED']_vars

\* A Host has been built without a call of the validator, the flag being
\* set by an earlier construction.
C20_Witness ==
    /\ ev.op = "init" /\ ev.result = "ok" /\ ev.validated = "no"
    /\ SETTINGS_VALIDATED /\ status[ev.host] = "live"

====
